---- MODULE Spec2Model ----
\* A model of src/src/main.rs: the registry of running warp servers
\* (Arc<Mutex<HashMap<u16, RunningServer>>>), the three request handlers
\* list_servers, post_new_server and delete_server running on the tokio
\* thread pool, create_warp_server, main, and the serving loops.
EXTENDS Integers, Sequences, FiniteSets, TLC

\* ------------------------------------------------------------------ bounds
\* Number of request handlers that can be in flight at the same time.
NumProcs == 2

\* ------------------------------------------------------------ program data
\* main.rs:115  let port = 8080;
DefaultPort == 8080
\* Ports a request may name (u16): 0 (the OS picks the port), the default
\* port and one other port.
Ports == {0, DefaultPort, DefaultPort + 1}
\* The ports the OS hands out for a bind to port 0.
EphemeralPorts == {32768, 32769}
\* Ports another process of the host may hold.
ExtPorts == {DefaultPort + 1}
OsPorts == (Ports \ {0}) \cup EphemeralPorts

Procs == 1..NumProcs

VARIABLES
    mainPc,      \* position of main (main.rs:114-125)
    mainServer,  \* main's local `server` (0: none yet)
    server_map,  \* the HashMap<u16, RunningServer>: port -> handle
    handles,     \* the RunningServer values and their serving loops, named
                 \* by the OS port their listening socket is bound to
    lock,        \* the handler owning the MutexGuard, 0 when the mutex is free
    poisoned,    \* the Mutex's poison flag
    extBound,    \* ports held by other processes
    pc,          \* position of each request handler
    op,          \* the handler each request runs
    port,        \* the port argument of each request
    res,         \* the value each handler is returning ("panic": unwinding)
    keys,        \* list_servers' local `keys`
    server,      \* the local `server` of post_new_server / delete_server
                 \* (0: none)
    mode,        \* which history a run records: "plain" (none), "race",
                 \* "distinct", "order" or "retry"; fixed by the initial state
    clean,       \* history ("race"): the request's port was unregistered
                 \* when the request arrived and no delete removed it since;
                 \* ("retry"): the create arrived, with no other request in
                 \* flight, after a delete of its port had returned
    rival,       \* history ("race"): the outcome of the first create on the
                 \* same port that returned while this clean create waited
    hist,        \* history ("distinct": the create/delete requests name
                 \* pairwise distinct ports): per port, the outcome of the
                 \* one create/delete request made on it
    last         \* history ("order"): per port, the last successful
                 \* create/delete that returned, "none" once removed again

vars == <<mainPc, mainServer, server_map, handles, lock, poisoned, extBound,
          pc, op, port, res, keys, server, mode, clean, rival, hist, last>>

progVars == <<mainPc, mainServer, server_map, handles, lock, poisoned,
              extBound>>
histVars == <<mode, clean, rival, hist, last>>

\* ------------------------------------------------------------- RunningServer
\* main.rs:17-20, 106-111. `tx` is the oneshot Sender held in the struct:
\* "held", "sent" (send(()) delivered) or "dropped" (the struct was dropped).
\* `state` is the future returned by bind_with_graceful_shutdown: "bound"
\* (socket bound, future not yet spawned) or "serving" (spawned).
\* `port` is the port the server was created for.
RunningServer(p) == [port |-> p, state |-> "bound", tx |-> "held"]

\* No open listening socket of this process on an OS port: none was bound, or
\* its serving loop has seen the shutdown signal, closed the socket and is
\* draining or done; the Receiver is gone with it.
Closed == [port |-> 0, state |-> "closed", tx |-> "none"]

\* The serving loops whose listening socket is open.
Handles == {h \in OsPorts : handles[h].state # "closed"}

\* The oneshot Receiver of handle h is alive (owned by a future that has not
\* resolved its shutdown signal).
ReceiverAlive(h) == handles[h].state \in {"bound", "serving"}

\* Ports the OS will refuse to bind.
OsBound == extBound \cup Handles

\* main.rs:108-109 bind_with_graceful_shutdown(([127,0,0,1], port), rx): the
\* OS ports the bind can end up on; empty when the bind fails (and panics).
BindChoices(p) ==
    IF p = 0 THEN EphemeralPorts \ OsBound ELSE {p} \ OsBound

\* main.rs:51, 121 HashMap::insert: the new value replaces (and drops) an old one.
MapInsert(m, k, v) == [x \in DOMAIN m \cup {k} |-> IF x = k THEN v ELSE m[x]]
\* A lookup in place of the removal.
MapGet(m, k) == m

\* main.rs:64 HashMap::remove
MapRemove(m, k) == [x \in DOMAIN m \ {k} |-> m[x]]

\* The handles after the value stored for key k (if any) is dropped.
DropOld(hs, m, k) ==
    IF k \in DOMAIN m /\ hs[m[k]].state # "closed"
    THEN [hs EXCEPT ![m[k]].tx = "dropped"]
    ELSE hs

\* -------------------------------------------------------------------- Init
InitProgram ==
    /\ mainPc = "M117"
    /\ mainServer = 0
    /\ server_map = <<>>
    /\ handles = [h \in OsPorts |-> Closed]
    /\ lock = 0
    /\ poisoned = FALSE
    /\ extBound = {}
    /\ pc = [i \in Procs |-> "idle"]
    /\ op = [i \in Procs |-> "none"]
    /\ port = [i \in Procs |-> 0]
    /\ res = [i \in Procs |-> "none"]
    /\ keys = [i \in Procs |-> {}]
    /\ server = [i \in Procs |-> 0]
    /\ clean = [i \in Procs |-> FALSE]
    /\ rival = [i \in Procs |-> "none"]
    /\ hist = [p \in Ports |-> "none"]
    /\ last = [p \in Ports |-> "none"]

Init == InitProgram /\ mode = "plain"

\* The runs that record, for concurrent creates on one port, who returned first.
InitRace == InitProgram /\ mode = "race"

\* The runs in which no two create/delete requests name the same port.
InitDistinct == InitProgram /\ mode = "distinct"

\* The runs that record the last successful create/delete per port.
InitOrder == InitProgram /\ mode = "order"

InitRetry == InitProgram /\ mode = "retry"

\* -------------------------------------------------------------------- main
\* main.rs:117 create_warp_server(database.clone(), port); a failed bind
\* panics and the process ends.
MainCreate ==
    /\ mainPc = "M117"
    /\ IF BindChoices(DefaultPort) = {}
       THEN /\ mainPc' = "aborted"
            /\ UNCHANGED <<mainServer, handles>>
       ELSE /\ \E s \in BindChoices(DefaultPort) :
                 /\ handles' = [handles EXCEPT ![s] = RunningServer(DefaultPort)]
                 /\ mainServer' = s
            /\ mainPc' = "M120"
    /\ UNCHANGED <<server_map, lock, poisoned, extBound, pc, op, port, res,
                   keys, server, histVars>>

\* main.rs:119-122 lock, insert, drop the guard (no other thread exists yet).
MainInsert ==
    /\ mainPc = "M120"
    /\ lock = 0
    /\ server_map' = MapInsert(server_map, DefaultPort, mainServer)
    /\ handles' = DropOld(handles, server_map, DefaultPort)
    /\ mainPc' = "M124"
    /\ UNCHANGED <<mainServer, lock, poisoned, extBound, pc, op, port, res,
                   keys, server, histVars>>

\* main.rs:124 tokio::run(future): the first serving loop starts.
MainRun ==
    /\ mainPc = "M124"
    /\ handles' = [handles EXCEPT ![mainServer].state = "serving"]
    /\ mainPc' = "running"
    /\ UNCHANGED <<mainServer, server_map, lock, poisoned, extBound, pc, op,
                   port, res, keys, server, histVars>>

\* ------------------------------------------------------------ serving loops
\* The serving loop of handle h observes its shutdown signal (the message, or
\* the Sender having been dropped): it closes the listening socket, lets the
\* connections in flight finish and completes.
Shutdown(h) ==
    /\ h \in Handles
    /\ handles[h].state = "serving"
    /\ handles[h].tx \in {"sent", "dropped"}
    /\ handles' = [handles EXCEPT ![h] = Closed]
    /\ UNCHANGED <<mainPc, mainServer, server_map, lock, poisoned, extBound,
                   pc, op, port, res, keys, server, histVars>>

\* ------------------------------------------------------------ other processes
ExtBind(q) ==
    /\ q \in ExtPorts \ OsBound
    /\ extBound' = extBound \cup {q}
    /\ UNCHANGED <<mainPc, mainServer, server_map, handles, lock, poisoned,
                   pc, op, port, res, keys, server, histVars>>

ExtRelease(q) ==
    /\ q \in extBound
    /\ extBound' = extBound \ {q}
    /\ UNCHANGED <<mainPc, mainServer, server_map, handles, lock, poisoned,
                   pc, op, port, res, keys, server, histVars>>

\* ---------------------------------------------------------- request arrival
\* First position of each handler.
Entry(o) == CASE o = "list" -> "L29" [] o = "create" -> "P43" [] o = "delete" -> "D62"

\* History: a create/delete request on port p arrives.
HistArrive(o, p) ==
    IF mode = "distinct" /\ o # "list" THEN [hist EXCEPT ![p] = "pending"] ELSE hist

\* History: the request of handler i returns.
HistReturn(i) ==
    IF mode = "distinct" /\ op[i] # "list"
    THEN [hist EXCEPT ![port[i]] =
            IF res[i] # "ok" THEN "failed"
            ELSE IF op[i] = "create" THEN "createOk" ELSE "deleteOk"]
    ELSE hist

\* History: the last successful create/delete per port, as handler i returns.
LastReturn(i) ==
    IF mode \in {"order", "retry"} /\ res[i] = "ok" /\ op[i] # "list"
    THEN [last EXCEPT ![port[i]] = IF op[i] = "create" THEN "created" ELSE "deleted"]
    ELSE last

\* History: handler i removes the entry of its port.
LastRemove(i) ==
    IF mode \in {"order", "retry"}
    THEN [last EXCEPT ![port[i]] = "none"]
    ELSE last

\* History: a request on port p arrives at handler i.
CleanArrive(i, o, p) ==
    [clean EXCEPT ![i] =
        \/ mode = "race" /\ o = "create" /\ p \notin DOMAIN server_map
        \/ /\ mode = "retry" /\ o = "create" /\ last[p] = "deleted"
           /\ \A j \in Procs : pc[j] = "idle"]

\* History: handler i removes the entry of its port.
CleanRemove(i) == [j \in Procs |-> clean[j] /\ port[j] # port[i]]

\* History: handler i returns; the clean creates waiting on the same port
\* learn the outcome of the first clean create that returned before them.
RivalReturn(i) ==
    [j \in Procs |->
        IF j = i THEN "none"
        ELSE IF /\ op[i] = "create" /\ clean[i]
                /\ op[j] = "create" /\ clean[j] /\ pc[j] # "idle"
                /\ port[j] = port[i] /\ rival[j] = "none"
             THEN res[i]
             ELSE rival[j]]

\* main.rs:74-99 app_filter: a request accepted by a serving loop is routed to
\* list_servers (GET /), post_new_server (POST / with a JSON body) or
\* delete_server (DELETE /{port}) with a clone of the one database.
Start(i, o, p) ==
    /\ pc[i] = "idle"
    /\ \E h \in Handles : handles[h].state = "serving"
    /\ (mode = "distinct" /\ o # "list") => hist[p] = "none"
    /\ o = "list" => p = 0
    /\ pc' = [pc EXCEPT ![i] = Entry(o)]
    /\ op' = [op EXCEPT ![i] = o]
    /\ port' = [port EXCEPT ![i] = p]
    /\ clean' = CleanArrive(i, o, p)
    /\ hist' = HistArrive(o, p)
    /\ UNCHANGED <<progVars, res, keys, server, mode, rival, last>>

\* ------------------------------------------------------------------ the lock
\* LockUnwrap that takes the mutex without waiting for it to be free.
LockUnwrapNoWait(i, at, next, exit) ==
    /\ pc[i] = at
    /\ lock' = i
    /\ IF poisoned
       THEN /\ pc' = [pc EXCEPT ![i] = exit]
            /\ res' = [res EXCEPT ![i] = "panic"]
       ELSE /\ pc' = [pc EXCEPT ![i] = next]
            /\ UNCHANGED res
    /\ UNCHANGED <<mainPc, mainServer, server_map, handles, poisoned, extBound,
                   op, port, keys, server, histVars>>

\* main.rs:29, 43, 62  database.lock().unwrap(): blocks until the mutex is
\* free and takes it; on a poisoned mutex lock() returns Err holding the
\* guard, and unwrap panics: the handler unwinds to its exit.
LockUnwrap(i, at, next, exit) ==
    /\ pc[i] = at
    /\ lock = 0
    /\ lock' = i
    /\ IF poisoned
       THEN /\ pc' = [pc EXCEPT ![i] = exit]
            /\ res' = [res EXCEPT ![i] = "panic"]
       ELSE /\ pc' = [pc EXCEPT ![i] = next]
            /\ UNCHANGED res
    /\ UNCHANGED <<mainPc, mainServer, server_map, handles, poisoned, extBound,
                   op, port, keys, server, histVars>>

\* main.rs:36, 55, 71  the handler's locals go out of scope, on return or on
\* unwinding: the MutexGuard is dropped, which releases the mutex and, when
\* the thread is panicking, poisons it. The result goes to the caller.
DropGuard(i, at) ==
    /\ pc[i] = at
    /\ lock' = 0
    /\ poisoned' = (poisoned \/ res[i] = "panic")
    /\ pc' = [pc EXCEPT ![i] = "idle"]
    /\ op' = [op EXCEPT ![i] = "none"]
    /\ port' = [port EXCEPT ![i] = 0]
    /\ res' = [res EXCEPT ![i] = "none"]
    /\ keys' = [keys EXCEPT ![i] = {}]
    /\ server' = [server EXCEPT ![i] = 0]
    /\ clean' = [clean EXCEPT ![i] = FALSE]
    /\ rival' = RivalReturn(i)
    /\ hist' = HistReturn(i)
    /\ last' = LastReturn(i)
    /\ UNCHANGED <<mainPc, mainServer, server_map, handles, extBound, mode>>

\* ------------------------------------------------------------- list_servers
\* main.rs:29
ListLock(i) == LockUnwrap(i, "L29", "L31", "L36")

\* ListCollect taking the keys out of the map (drain) instead of reading them.
ListCollectDrain(i) ==
    /\ pc[i] = "L31"
    /\ keys' = [keys EXCEPT ![i] = DOMAIN server_map]
    /\ server_map' = <<>>
    /\ pc' = [pc EXCEPT ![i] = "L35"]
    /\ UNCHANGED <<mainPc, mainServer, handles, lock, poisoned, extBound, op,
                   port, res, server, histVars>>

\* main.rs:31-33 collect the keys of the map.
ListCollect(i) ==
    /\ pc[i] = "L31"
    /\ keys' = [keys EXCEPT ![i] = DOMAIN server_map]
    /\ pc' = [pc EXCEPT ![i] = "L35"]
    /\ UNCHANGED <<progVars, op, port, res, server, histVars>>

\* main.rs:35 warp::reply::json(&keys)
ListReply(i) ==
    /\ pc[i] = "L35"
    /\ res' = [res EXCEPT ![i] = "ok"]
    /\ pc' = [pc EXCEPT ![i] = "L36"]
    /\ UNCHANGED <<progVars, op, port, keys, server, histVars>>

\* main.rs:36
ListExit(i) == DropGuard(i, "L36")

\* ---------------------------------------------------------- post_new_server
\* main.rs:43
PostLock(i) == LockUnwrap(i, "P43", "P45", "P55")

\* PostCheck without the contains_key test.
PostCheckNoContains(i) ==
    /\ pc[i] = "P45"
    /\ pc' = [pc EXCEPT ![i] = "P49"]
    /\ UNCHANGED <<progVars, op, port, res, keys, server, histVars>>

\* main.rs:45-47 contains_key: a registered port is rejected with
\* warp::reject::not_found().
PostCheck(i) ==
    /\ pc[i] = "P45"
    /\ IF port[i] \in DOMAIN server_map
       THEN /\ res' = [res EXCEPT ![i] = "not_found"]
            /\ pc' = [pc EXCEPT ![i] = "P55"]
       ELSE /\ pc' = [pc EXCEPT ![i] = "P49"]
            /\ UNCHANGED res
    /\ UNCHANGED <<progVars, op, port, keys, server, histVars>>

\* PostCreate whose create_warp_server locks the database it is handed, which
\* its caller holds locked.
PostCreateRelock(i) ==
    /\ pc[i] = "P49"
    /\ lock = 0
    /\ lock' = i
    /\ pc' = [pc EXCEPT ![i] = "P51"]
    /\ UNCHANGED <<mainPc, mainServer, server_map, handles, poisoned, extBound,
                   op, port, res, keys, server, histVars>>

\* main.rs:49, 102-112 create_warp_server: a new channel and a bound socket;
\* bind_with_graceful_shutdown panics when the bind fails.
PostCreate(i) ==
    /\ pc[i] = "P49"
    /\ IF BindChoices(port[i]) = {}
       THEN /\ res' = [res EXCEPT ![i] = "panic"]
            /\ pc' = [pc EXCEPT ![i] = "P55"]
            /\ UNCHANGED <<handles, server>>
       ELSE /\ \E s \in BindChoices(port[i]) :
                 /\ handles' = [handles EXCEPT ![s] = RunningServer(port[i])]
                 /\ server' = [server EXCEPT ![i] = s]
            /\ pc' = [pc EXCEPT ![i] = "P51"]
            /\ UNCHANGED res
    /\ UNCHANGED <<mainPc, mainServer, server_map, lock, poisoned, extBound,
                   op, port, keys, histVars>>

\* PostInsert with the insert left out.
PostInsertForgotten(i) ==
    /\ pc[i] = "P51"
    /\ pc' = [pc EXCEPT ![i] = "P53"]
    /\ UNCHANGED <<progVars, op, port, res, keys, server, histVars>>

\* main.rs:51 server_map.insert(body.port, server)
PostInsert(i) ==
    /\ pc[i] = "P51"
    /\ server_map' = MapInsert(server_map, port[i], server[i])
    /\ handles' = DropOld(handles, server_map, port[i])
    /\ pc' = [pc EXCEPT ![i] = "P53"]
    /\ UNCHANGED <<mainPc, mainServer, lock, poisoned, extBound, op, port, res,
                   keys, server, histVars>>

\* PostSpawn with the spawn left out.
PostSpawnForgotten(i) ==
    /\ pc[i] = "P53"
    /\ pc' = [pc EXCEPT ![i] = "P54"]
    /\ UNCHANGED <<progVars, op, port, res, keys, server, histVars>>

\* main.rs:53 tokio::spawn(future): the serving loop is scheduled.
PostSpawn(i) ==
    /\ pc[i] = "P53"
    /\ handles' = [handles EXCEPT ![server[i]].state = "serving"]
    /\ pc' = [pc EXCEPT ![i] = "P54"]
    /\ UNCHANGED <<mainPc, mainServer, server_map, lock, poisoned, extBound,
                   op, port, res, keys, server, histVars>>

\* main.rs:54 Ok(warp::reply::json(&body))
PostReturn(i) ==
    /\ pc[i] = "P54"
    /\ res' = [res EXCEPT ![i] = "ok"]
    /\ pc' = [pc EXCEPT ![i] = "P55"]
    /\ UNCHANGED <<progVars, op, port, keys, server, histVars>>

\* main.rs:55
PostExit(i) == DropGuard(i, "P55")

\* ------------------------------------------------------------ delete_server
\* main.rs:62
DeleteLock(i) == LockUnwrap(i, "D62", "D64", "D71")

\* DeleteRemove that takes the handle and leaves the entry in the map.
DeleteRemoveKeeps(i) ==
    /\ pc[i] = "D64"
    /\ IF port[i] \in DOMAIN server_map
       THEN /\ server' = [server EXCEPT ![i] = server_map[port[i]]]
            /\ pc' = [pc EXCEPT ![i] = "D66"]
            /\ UNCHANGED res
       ELSE /\ res' = [res EXCEPT ![i] = "not_found"]
            /\ pc' = [pc EXCEPT ![i] = "D71"]
            /\ UNCHANGED server
    /\ UNCHANGED <<progVars, op, port, keys, histVars>>

\* main.rs:64, 69 server_map.remove(&port): None is rejected with
\* warp::reject::not_found().
DeleteRemove(i) ==
    /\ pc[i] = "D64"
    /\ IF port[i] \in DOMAIN server_map
       THEN /\ server' = [server EXCEPT ![i] = server_map[port[i]]]
            /\ server_map' = MapRemove(server_map, port[i])
            /\ pc' = [pc EXCEPT ![i] = "D66"]
            /\ clean' = CleanRemove(i)
            /\ last' = LastRemove(i)
            /\ UNCHANGED res
       ELSE /\ res' = [res EXCEPT ![i] = "not_found"]
            /\ pc' = [pc EXCEPT ![i] = "D71"]
            /\ UNCHANGED <<server, server_map, clean, last>>
    /\ UNCHANGED <<mainPc, mainServer, handles, lock, poisoned, extBound, op,
                   port, keys, mode, rival, hist>>

\* DeleteSend that returns without sending on the removed handle's Sender.
DeleteSendForgotten(i) ==
    /\ pc[i] = "D66"
    /\ pc' = [pc EXCEPT ![i] = "D67"]
    /\ UNCHANGED <<progVars, op, port, res, keys, server, histVars>>

\* main.rs:66 server.shutdown.send(()).unwrap(): send consumes the Sender; it
\* fails when the Receiver is gone, and unwrap then panics.
DeleteSend(i) ==
    /\ pc[i] = "D66"
    /\ IF ReceiverAlive(server[i])
       THEN /\ handles' = [handles EXCEPT ![server[i]].tx = "sent"]
            /\ pc' = [pc EXCEPT ![i] = "D67"]
            /\ UNCHANGED res
       ELSE /\ res' = [res EXCEPT ![i] = "panic"]
            /\ pc' = [pc EXCEPT ![i] = "D71"]
            /\ UNCHANGED handles
    /\ UNCHANGED <<mainPc, mainServer, server_map, lock, poisoned, extBound,
                   op, port, keys, server, histVars>>

\* main.rs:67 Ok(warp::http::StatusCode::NO_CONTENT)
DeleteReturn(i) ==
    /\ pc[i] = "D67"
    /\ res' = [res EXCEPT ![i] = "ok"]
    /\ pc' = [pc EXCEPT ![i] = "D71"]
    /\ UNCHANGED <<progVars, op, port, keys, server, histVars>>

\* main.rs:71
DeleteExit(i) == DropGuard(i, "D71")

\* -------------------------------------------------------------------- Next
Next ==
    \/ MainCreate
    \/ MainInsert
    \/ MainRun
    \/ \E h \in OsPorts : Shutdown(h)
    \/ \E q \in ExtPorts : ExtBind(q)
    \/ \E q \in ExtPorts : ExtRelease(q)
    \/ \E i \in Procs, o \in {"list", "create", "delete"}, p \in Ports : Start(i, o, p)
    \/ \E i \in Procs : ListLock(i)
    \/ \E i \in Procs : ListCollect(i)
    \/ \E i \in Procs : ListReply(i)
    \/ \E i \in Procs : ListExit(i)
    \/ \E i \in Procs : PostLock(i)
    \/ \E i \in Procs : PostCheck(i)
    \/ \E i \in Procs : PostCreate(i)
    \/ \E i \in Procs : PostInsert(i)
    \/ \E i \in Procs : PostSpawn(i)
    \/ \E i \in Procs : PostReturn(i)
    \/ \E i \in Procs : PostExit(i)
    \/ \E i \in Procs : DeleteLock(i)
    \/ \E i \in Procs : DeleteRemove(i)
    \/ \E i \in Procs : DeleteSend(i)
    \/ \E i \in Procs : DeleteReturn(i)
    \/ \E i \in Procs : DeleteExit(i)

Spec == Init /\ [][Next]_vars

SpecRace == InitRace /\ [][Next]_vars

SpecDistinct == InitDistinct /\ [][Next]_vars

SpecOrder == InitOrder /\ [][Next]_vars

SpecRetry == InitRetry /\ [][Next]_vars

\* The step of handler i at its lock().
HandlerLock(i) == ListLock(i) \/ PostLock(i) \/ DeleteLock(i)

\* The steps of handler i past its lock().
HandlerStep(i) ==
    \/ ListCollect(i) \/ ListReply(i) \/ ListExit(i)
    \/ PostCheck(i) \/ PostCreate(i) \/ PostInsert(i) \/ PostSpawn(i)
    \/ PostReturn(i) \/ PostExit(i)
    \/ DeleteRemove(i) \/ DeleteSend(i) \/ DeleteReturn(i) \/ DeleteExit(i)

\* The program with its scheduling: a handler runs on a worker thread of the
\* tokio runtime, which the OS keeps running (a handler that can step does),
\* and a thread blocked in lock() gets the mutex after finitely many
\* releases. Requests need not arrive.
SpecLive ==
    /\ Init /\ [][Next]_vars
    /\ \A i \in Procs : WF_vars(HandlerStep(i)) /\ SF_vars(HandlerLock(i))

\* main.rs:105 the serving future has Error = (): it can complete without a
\* shutdown signal (the server loop ends with an error). Its socket and its
\* Receiver are gone while the RunningServer with the Sender stays in the map.
ServeEnds(h) ==
    /\ h \in Handles
    /\ handles[h].state = "serving"
    /\ handles[h].tx = "held"
    /\ handles' = [handles EXCEPT ![h] = Closed]
    /\ UNCHANGED <<mainPc, mainServer, server_map, lock, poisoned, extBound,
                   pc, op, port, res, keys, server, histVars>>

\* The program with serving loops that may end on their own.
NextFault == Next \/ \E h \in OsPorts : ServeEnds(h)

SpecFault == Init /\ [][NextFault]_vars

\* ------------------------------------------------------------------- types
TypeOK ==
    /\ mainPc \in {"M117", "M120", "M124", "running", "aborted"}
    /\ DOMAIN server_map \subseteq Ports
    /\ \A p \in DOMAIN server_map : server_map[p] \in OsPorts
    /\ DOMAIN handles = OsPorts
    /\ lock \in Procs \cup {0}
    /\ poisoned \in BOOLEAN
    /\ extBound \subseteq ExtPorts
    /\ \A i \in Procs : res[i] \in {"none", "ok", "not_found", "panic"}

\* ------------------------------------------------------------ vocabulary
\* The RunningServer values created for port p whose Sender is still held
\* (in the map or in a handler's local).
HeldFor(p) == {h \in Handles : handles[h].port = p /\ handles[h].tx = "held"}

\* The handle stored for key p is p's own, never told to stop, and its
\* serving loop is scheduled on an open socket.
Live(p) ==
    /\ handles[server_map[p]].port = p
    /\ handles[server_map[p]].tx = "held"
    /\ handles[server_map[p]].state = "serving"

\* A request can be in progress: a serving loop accepts connections, or a
\* handler is running.
RequestsRun ==
    \/ \E h \in Handles : handles[h].state = "serving"
    \/ \E i \in Procs : pc[i] # "idle"

\* No handler is running.
Quiescent == \A i \in Procs : pc[i] = "idle"

\* Positions outside the critical section.
Outside == {"idle", "L29", "P43", "D62"}

\* ------------------------------------------------------------------ claims
\* C1: in every reachable state there is at most one Listener Handle per
\* port: a create about to insert (main.rs:51) never finds its port already a
\* key of the map, at most one handle with an unconsumed stop signal exists
\* per port, and no two keys share a handle.
C1_OneHandlePerPort ==
    /\ \A i \in Procs : pc[i] = "P51" => port[i] \notin DOMAIN server_map
    /\ \A p \in Ports : Cardinality(HeldFor(p)) <= 1
    /\ \A p, q \in DOMAIN server_map : server_map[p] = server_map[q] => p = q

\* C1 witness: a create on a registered port has been turned away while two
\* ports are registered.
C1_Witness ==
    \E i \in Procs :
        /\ pc[i] = "P55" /\ op[i] = "create" /\ res[i] = "not_found"
        /\ port[i] \in DOMAIN server_map
        /\ Cardinality(DOMAIN server_map) >= 2

\* C2: of two concurrent creates on an unregistered port, the one that takes
\* the lock first succeeds and the other is rejected (not_found, the
\* PortAlreadyInUse outcome); afterwards the port is registered with exactly
\* one handle. Stated for the create that returns second (rival is the
\* outcome of the one that returned first).
C2_ConcurrentCreates ==
    \A j \in Procs :
        (pc[j] = "P55" /\ op[j] = "create" /\ clean[j] /\ rival[j] # "none") =>
            /\ rival[j] = "ok"
            /\ res[j] = "not_found"
            /\ port[j] \in DOMAIN server_map
            /\ Cardinality(HeldFor(port[j])) = 1

\* C3: when the create/delete requests name pairwise distinct ports, then
\* once all of them have returned the registered ports are the initial one
\* plus those whose create succeeded minus those whose delete succeeded.
C3_FinalRegistry ==
    (mainPc = "running" /\ Quiescent) =>
        DOMAIN server_map =
            ({DefaultPort} \cup {p \in Ports : hist[p] = "createOk"})
                \ {p \in Ports : hist[p] = "deleteOk"}

\* C3 witness: all requests have returned; one create succeeded, one delete
\* succeeded and one request failed.
C3_Witness ==
    /\ mainPc = "running" /\ Quiescent
    /\ \E p, q, r \in Ports :
        hist[p] = "createOk" /\ hist[q] = "deleteOk" /\ hist[r] = "failed"

\* C4: a create that runs while its port is a key of the map returns
\* not_found (PortAlreadyInUse). Stated at the handler's exit: a create that
\* made no RunningServer and whose port is registered returns not_found.
C4_CreateOnRegistered ==
    \A i \in Procs :
        (pc[i] = "P55" /\ op[i] = "create" /\ server[i] = 0
            /\ port[i] \in DOMAIN server_map) => res[i] = "not_found"

\* C5: a delete that runs while its port is not a key of the map returns
\* not_found. Stated at the handler's exit: a delete that removed no
\* RunningServer returns not_found.
C5_DeleteOnUnregistered ==
    \A i \in Procs :
        (pc[i] = "D71" /\ op[i] = "delete" /\ server[i] = 0
            /\ port[i] \notin DOMAIN server_map) => res[i] = "not_found"

\* C6: once a delete of port p has returned success, no list result contains
\* p until a later create of p has succeeded.
C6_ListAfterDelete ==
    \A i \in Procs :
        pc[i] = "L35" => \A p \in Ports : last[p] = "deleted" => p \notin keys[i]

\* C6 witness: a list has collected its keys after a port other than the
\* default one was created and then deleted.
C6_Witness ==
    \E i \in Procs :
        /\ pc[i] = "L35"
        /\ \E p \in Ports \ {DefaultPort} : last[p] = "deleted" /\ p \notin keys[i]
        /\ keys[i] # {}

C8_ListNeverFails ==
    \A i \in Procs : pc[i] = "L36" => res[i] = "ok"

\* C9: list has no side effects: every step of list_servers leaves the map,
\* the handles (stop signals and serving loops), the poison flag and the
\* other handlers' locals unchanged, and the keys it collects are exactly the
\* keys of the map at that step.
C9_ListFrame ==
    [][\A i \in Procs :
         (op[i] = "list" /\ pc'[i] # pc[i]) =>
             /\ UNCHANGED <<server_map, handles, poisoned, mainPc, mainServer>>
             /\ \A j \in Procs \ {i} :
                   UNCHANGED <<pc[j], op[j], port[j], res[j], keys[j], server[j]>>
             /\ pc'[i] = "L35" => keys'[i] = DOMAIN server_map
             /\ pc[i] = "L35" => keys'[i] = keys[i]]_vars

\* C9 witness: a list is returning after collecting two keys.
C9_Witness ==
    \E i \in Procs :
        pc[i] = "L36" /\ res[i] = "ok" /\ Cardinality(keys[i]) >= 2

\* C10: whenever the lock is free and a request can be in progress, every
\* key of the map has a handle whose socket is bound and whose serving loop
\* is scheduled and has not been told to stop; and every port a list collects
\* has such a handle.
C10_NoZombie ==
    /\ (lock = 0 /\ RequestsRun) => \A p \in DOMAIN server_map : Live(p)
    /\ \A i \in Procs : pc[i] = "L35" => \A p \in keys[i] : p \in DOMAIN server_map /\ Live(p)

\* C10 witness: the lock is free after a create has added a second port.
C10_Witness ==
    /\ lock = 0 /\ RequestsRun
    /\ Cardinality(DOMAIN server_map) >= 2
    /\ \E i \in Procs : pc[i] = "L29"

\* ---------------------------------------------------------------- C11
\* The values of the map.
Registered == {server_map[p] : p \in DOMAIN server_map}

\* The states another operation can observe: main has started the runtime
\* and no handler holds the lock.
Observable == mainPc = "running" /\ lock = 0

\* C11 as written: in every state an operation can observe, a listener of
\* this registry that still has its socket open was created for a port that is
\* a key of the map and is the handle stored under that key; so a port that is
\* not a key has no socket bound by a listener of this registry, also between
\* the return of a successful Delete(p) and the old listener closing its socket.
C11_AbsentPortUnbound ==
    Observable =>
        \A h \in Handles :
            /\ handles[h].port \in DOMAIN server_map
            /\ server_map[handles[h].port] = h

\* C11 amended: every open socket of this registry belongs to the handle
\* stored in the map under the port it was created for, or to a handle the
\* lock holder is creating (bound, not yet inserted) or deleting (removed, not
\* yet signalled), or to main before its insert, or to a listener whose stop
\* signal was sent and that has not yet closed its socket. A port absent from
\* the map can therefore stay bound after a successful Delete until the old
\* listener observes the signal.
C11_SocketOwner ==
    \A h \in Handles :
        \/ /\ handles[h].tx = "held"
           /\ handles[h].port \in DOMAIN server_map
           /\ server_map[handles[h].port] = h
        \/ /\ handles[h].tx = "held"
           /\ h \notin Registered
           /\ \E i \in Procs :
                lock = i /\ server[i] = h /\ pc[i] \in {"P51", "D66"}
        \/ /\ handles[h].tx = "held"
           /\ h \notin Registered
           /\ mainPc = "M120" /\ mainServer = h
        \/ /\ handles[h].tx = "sent"
           /\ handles[h].state = "serving"
           /\ h \notin Registered

\* A Delete has returned, its port is no longer a key, and the old listener
\* still holds the socket.
C11_Witness ==
    /\ Observable
    /\ \A i \in Procs : pc[i] = "idle"
    /\ \E h \in Handles :
        /\ handles[h].tx = "sent"
        /\ handles[h].port \notin DOMAIN server_map

\* ---------------------------------------------------------------- C12
\* C12: a Delete sends the stop signal only after it removed the entry and
\* released the lock, so the handler at the send does not hold the lock.
C12_SendAfterRelease ==
    \A i \in Procs :
        pc[i] = "D66" => (port[i] \notin DOMAIN server_map /\ lock # i)

\* ---------------------------------------------------------------- C13
\* C13: a Create schedules the serving task only after the insert is
\* committed and the lock released, so the handler at the spawn does not hold
\* the lock.
C13_SpawnAfterRelease ==
    \A i \in Procs :
        pc[i] = "P53" => (port[i] \in DOMAIN server_map /\ lock # i)

\* ---------------------------------------------------------------- C14
\* C14: a Create whose port is absent from the map and whose bind fails
\* returns the outcome BindFailed with the map unmodified, and its return
\* releases the lock in a state in which later operations complete: it never
\* leaves the mutex poisoned.
C14_BindFailedReturned ==
    /\ \A i \in Procs :
        (pc[i] = "P55" /\ server[i] = 0 /\ port[i] \notin DOMAIN server_map)
            => res[i] = "bind_failed"
    /\ ~poisoned

\* ---------------------------------------------------------------- C15
\* C15: when a Delete that removed its entry returns, whether or not its stop
\* signal could be delivered, the removal stays committed, the lock is
\* released and the mutex is left unpoisoned, so that later operations still
\* acquire the lock and complete normally.
C15_FailedSendNotFatal ==
    [][\A i \in Procs :
        (pc[i] = "D71" /\ server[i] # 0 /\ pc'[i] = "idle")
            => /\ port[i] \notin DOMAIN server_map'
               /\ lock' = 0
               /\ ~poisoned']_vars

\* ---------------------------------------------------------------- C16
\* C16: a create(p) made sequentially after a create(p) and a delete(p)
\* succeeded, with no successful create or delete of p since, ends in one of
\* two ways only: it succeeds, or its bind fails because the socket is still
\* held. It is never rejected with PortAlreadyInUse and never fails once the
\* old socket is released, so a client that retries eventually succeeds.
C16_RetryAfterDelete ==
    [][\A i \in Procs :
        (/\ clean[i] /\ port[i] # DefaultPort
         /\ last[port[i]] = "deleted"
         /\ pc[i] # "P55" /\ pc'[i] = "P55")
            => \/ res'[i] = "ok"
               \/ pc[i] = "P49" /\ BindChoices(port[i]) = {}]_vars

\* ---------------------------------------------------------------- C17
\* C17: a handle stored in the map never had its stop signal fired; the
\* handle a Delete is about to signal was removed from the map by that Delete
\* and was not signalled before; a signalled handle is referenced by no one
\* but the Delete that fired it, which is past its send; no two handlers hold
\* the same handle; and a stop signal is fired only by the step of a Delete
\* that removed the handle, which then returns success.
C17_SignalOnce ==
    /\ [](/\ \A p \in DOMAIN server_map : handles[server_map[p]].tx = "held"
          /\ \A i \in Procs :
                pc[i] = "D66" =>
                    /\ server[i] \notin Registered
                    /\ handles[server[i]].tx = "held"
          /\ \A h \in OsPorts :
                handles[h].tx = "sent" =>
                    /\ h \notin Registered
                    /\ \A i \in Procs :
                        server[i] = h =>
                            op[i] = "delete" /\ pc[i] \in {"D67", "D71"}
          /\ \A i, j \in Procs :
                (i # j /\ server[i] # 0) => server[i] # server[j])
    /\ [][\A h \in OsPorts :
            (handles[h].tx # "sent" /\ handles'[h].tx = "sent") =>
                \E i \in Procs :
                    /\ op[i] = "delete" /\ pc[i] = "D66" /\ pc'[i] = "D67"
                    /\ server[i] = h /\ lock = i
                    /\ handles[h].tx = "held"
                    /\ port[i] \notin DOMAIN server_map]_vars

\* A first Delete(p) has signalled p's handle, which has not yet closed its
\* socket, and a second Delete(p) finds no entry and signals nothing.
C17_Witness ==
    \E h \in Handles, i \in Procs :
        /\ handles[h].tx = "sent"
        /\ op[i] = "delete" /\ pc[i] = "D71"
        /\ port[i] = handles[h].port
        /\ res[i] = "not_found" /\ server[i] = 0

\* ---------------------------------------------------------------- C18
\* C18: a handler past its lock() and before its return holds the one lock,
\* so at most one handler is inside a critical section at any time, whatever
\* listener its request came in on; handlers run only after main's insert;
\* and the map changes only in a step of the lock holder (or of main's insert,
\* before any handler runs).
C18_MutualExclusion ==
    /\ [](/\ \A i \in Procs : pc[i] \notin Outside => lock = i
          /\ Cardinality({i \in Procs : pc[i] \notin Outside}) <= 1
          /\ mainPc # "running" => \A i \in Procs : pc[i] = "idle")
    /\ [][server_map' # server_map =>
            \/ mainPc = "M120"
            \/ \E i \in Procs :
                lock = i /\ lock' = i /\ pc[i] \in {"P51", "D64"}]_vars

\* Two listeners serve; one handler is inside its critical section and the
\* other waits at its lock().
C18_Witness ==
    /\ Cardinality({h \in Handles : handles[h].state = "serving"}) >= 2
    /\ \E i, j \in Procs :
        /\ i # j
        /\ pc[i] \in {"L31", "P45", "P49", "P51", "D64", "D66"}
        /\ pc[j] \in {"L29", "P43", "D62"}

C20_DefaultRegistered ==
    /\ mainPc = "M124" =>
            /\ DefaultPort \in DOMAIN server_map
            /\ handles[server_map[DefaultPort]].state = "bound"
    /\ RequestsRun => mainPc = "running"
    /\ \A i \in Procs :
        (last[DefaultPort] = "none" /\ DefaultPort \in DOMAIN server_map) =>
            /\ pc[i] = "L36" => (res[i] = "ok" /\ DefaultPort \in keys[i])
            /\ (pc[i] = "P55" /\ port[i] = DefaultPort) => res[i] = "not_found"
    /\ \A i \in Procs :
        (pc[i] = "D67" /\ port[i] = DefaultPort) =>
            /\ DefaultPort \notin DOMAIN server_map
            /\ \/ handles[server[i]] = Closed
               \/ /\ handles[server[i]].port = DefaultPort
                  /\ handles[server[i]].tx = "sent"

====
